---- MODULE Spec2Model ----
\* The kibitz helper scripts as one state machine: test_auto_commit.py,
\* test_git_fix.py, hello.py and the launcher docker/scripts/ws-mcp-direct.py.
\* A behaviour is one run of one script, chosen in Init, against a working
\* directory holding src/test_file_<ts>.ts, data/config.json, package.json
\* and test_git_functionality.md.
EXTENDS Integers, Sequences, FiniteSets, TLC

VARIABLES script, pc, exit, now, clockBack, round, i, tsFiles, config, pkg, md,
          package_data, events, io, logged, pkgBefore, updateResult,
          tsSuffixes, keySuffixes, lastConfig, sysPath, mainCalls, mainStatus

vars == <<script, pc, exit, now, clockBack, round, i, tsFiles, config, pkg, md,
          package_data, events, io, logged, pkgBefore, updateResult,
          tsSuffixes, keySuffixes, lastConfig, sysPath, mainCalls, mainStatus>>

\* ---------------------------------------------------------------- bounds

\* Longest list of "key": value members in the text of a package.json the run
\* starts with.
MaxPairs == 2
\* Most whole seconds that pass between the two time.time() reads of a round.
MaxTick == 1

\* ------------------------------------------------------- program constants

\* time.sleep(60)
SleepSecs == 60
\* range(3)
LoopRange == 3
\* if i < 2
LastWriteIndex == 2

\* ------------------------------------------------------------ JSON values

\* A JSON text or value. t is the kind; an object's pairs are its members in
\* the order written. In a file's text a key may occur twice; in a Python
\* dict it occurs once. "absent" is no file, "invalid" a text json.load
\* rejects, "partial" what a failed write leaves: nothing, or the cut-off
\* start of the text (never a whole JSON document).
Val(t, s, n, pairs) == [t |-> t, s |-> s, n |-> n, pairs |-> pairs]
Absent == Val("absent", "", 0, <<>>)
Invalid == Val("invalid", "", 0, <<>>)
Partial == Val("partial", "", 0, <<>>)
Arr == Val("arr", "", 0, <<>>)
Str(s) == Val("str", s, 0, <<>>)
Num(n) == Val("num", "", n, <<>>)
Bool(b) == Val("bool", IF b THEN "true" ELSE "false", 0, <<>>)
Obj(pairs) == Val("obj", "", 0, pairs)

Keys(d) == {d[j][1] : j \in 1..Len(d)}
HasKey(d, k) == k \in Keys(d)
\* d[k] of a dict (the last member wins, as for a text with a repeated key)
Get(d, k) == d[CHOOSE j \in 1..Len(d) : d[j][1] = k /\ \A m \in (j+1)..Len(d) : d[m][1] # k][2]
\* d[k] = v of a Python dict: an existing key keeps its place
Put(d, k, v) ==
    IF HasKey(d, k)
    THEN [j \in 1..Len(d) |-> IF d[j][1] = k THEN <<k, v>> ELSE d[j]]
    ELSE Append(d, <<k, v>>)

RECURSIVE DictOf(_)
RECURSIVE JsonValue(_)
\* the dict json.load builds from an object's members, left to right
DictOf(pairs) ==
    IF pairs = <<>> THEN <<>>
    ELSE LET n == Len(pairs)
         IN Put(DictOf(SubSeq(pairs, 1, n - 1)), pairs[n][1], JsonValue(pairs[n][2]))
JsonValue(v) == IF v.t = "obj" THEN Obj(DictOf(v.pairs)) ELSE v

\* A file: its JSON document and how the text is laid out. NoFile is a path
\* that does not exist.
Text(fmt, doc) == [fmt |-> fmt, doc |-> doc]
NoFile == Text("", Absent)
Exists(file) == file.doc.t # "absent"
\* json.load: a text that is no JSON document raises JSONDecodeError
Parses(file) == file.doc.t \in {"obj", "arr", "str", "num", "bool"}
\* json.load: the layout is dropped, a repeated key keeps its last value
JsonLoad(file) == JsonValue(file.doc)
\* json.dump(value, f, indent=2): the members in dict order, indented
JsonDump(value) == Text("indent2", value)
\* a file opened with 'w' and closed before the dump completed
Truncated == Text("", Partial)

\* --------------------------------------------------------------- names

\* the file name without its time suffix
TestFileNameFixed(t) == "src/test_file.ts"
TestFileName(t) == "src/test_file_" \o ToString(t) \o ".ts"
ScriptKey(t) == "test-auto-commit-" \o ToString(t)
ConfigPath == "data/config.json"
PackagePath == "package.json"
MdPath == "test_git_functionality.md"

\* ------------------------------------------------ what the scripts build

\* random.randint(1000, 9999): the two ends stand for the range
RandIds == {1000, 9999}

\* test_ts_content: the template with the time (its random identifiers are
\* text nothing reads, and are left out)
TestTsContent(t) == Val("ts", "", t, <<>>)

\* config_data with the flag written as False
ConfigDataFlagOff(t, r) ==
    Obj(<< <<"test_id", Num(r)>>,
           <<"timestamp", Num(t)>>,
           <<"settings", Obj(<< <<"auto_commit_test", Bool(FALSE)>>,
                                <<"random_value", Num(r)>> >>)>> >>)

\* config_data
ConfigData(t, r) ==
    Obj(<< <<"test_id", Num(r)>>,
           <<"timestamp", Num(t)>>,
           <<"settings", Obj(<< <<"auto_commit_test", Bool(TRUE)>>,
                                <<"random_value", Num(r)>> >>)>> >>)

\* the value of the added script entry
EchoAt(t) == Val("str", "echo Test script added at", t, <<>>)

\* lines 64-67 with package_data['scripts'] = {} run unconditionally
AddScriptFresh(data, key, val) == Put(data, "scripts", Obj(<< <<key, val>> >>))

\* lines 64-67 on a dict whose "scripts", when present, is a dict
AddScript(data, key, val) ==
    LET withScripts == IF HasKey(data, "scripts") THEN data
                       ELSE Put(data, "scripts", Obj(<<>>))
        scripts == Get(withScripts, "scripts").pairs
    IN Put(withScripts, "scripts", Obj(Put(scripts, key, val)))

\* lines 64-67 raise TypeError when the document is no dict, or its "scripts"
\* is none
AddScriptRaises(value) ==
    \/ value.t # "obj"
    \/ HasKey(value.pairs, "scripts") /\ Get(value.pairs, "scripts").t # "obj"

\* a try block around the whole body of create_test_files
InTryWholeBody(step) == TRUE
\* the statements inside the try block of create_test_files
InTry(step) == step \in {"load", "add", "dump"}
\* except OSError
CaughtOSErrorOnly(exc) == exc = "OSError"
\* except Exception
Caught(exc) == exc \in {"OSError", "JSONDecodeError", "TypeError"}
\* the sleep left out
ClockWithoutSleep(t, back) == t - back
\* time.sleep(60): the wall clock after the sleep, set back by `back` meanwhile
ClockAfterSleep(t, back) == t + SleepSecs - back
\* the test of line 92 left out: every iteration writes again
WritesEveryIteration(k) == TRUE
\* if i < 2
WritesAgain(k) == k < LastWriteIndex
\* for i in range(4)
InRangeOneMore(k) == k <= LoopRange
\* for i in range(3)
InRange(k) == k < LoopRange

\* ------------------------------------------------------ the first state

Scripts == {"test_auto_commit", "test_git_fix", "hello", "ws_mcp_direct"}

\* Members of the "scripts" object of a package.json the run starts with: a
\* key written twice with two values, and the key the first round may add.
ScriptMembers ==
    { <<"build", Str("old")>>, <<"build", Str("new")>>, <<ScriptKey(0), Str("old")>> }
ScriptDocs == UNION { [1..n -> ScriptMembers] : n \in 0..MaxPairs }
\* What "scripts" may hold: a string, or an object
ScriptsValues == {Str("none")} \cup { Obj(sd) : sd \in ScriptDocs }
\* The top-level members: no "scripts", "scripts" alone, after "name", and
\* written twice; "name" written twice.
PackageDocs ==
    { <<>>, << <<"name", Str("a")>> >>, << <<"name", Str("a")>>, <<"name", Str("b")>> >>,
      << <<"scripts", Obj(<<>>)>> >> }
    \cup { << <<"name", Str("a")>>, <<"scripts", v>> >> : v \in ScriptsValues }
    \cup { << <<"scripts", Str("none")>>, <<"name", Str("a")>>, <<"scripts", Obj(<<>>)>> >> }
\* package.json before the run: none, no JSON, a JSON array, a JSON object
PackageFiles ==
    {NoFile, Text("compact", Invalid), Text("compact", Arr)}
    \cup { Text("compact", Obj(d)) : d \in PackageDocs }
\* data/config.json before the run: none, or an object of another shape
ConfigFiles ==
    { NoFile,
      Text("compact", Obj(<< <<"settings", Obj(<< <<"auto_commit_test", Bool(FALSE)>> >>)>> >>)) }

Init ==
    /\ script \in Scripts
    /\ pc = "start"
    /\ exit = -1
    /\ now = 0
    /\ clockBack = FALSE
    /\ round = 0
    /\ i = 0
    /\ tsFiles = <<>>
    /\ config \in (IF script = "test_auto_commit" THEN ConfigFiles ELSE {NoFile})
    /\ pkg \in (IF script = "test_auto_commit" THEN PackageFiles ELSE {NoFile})
    /\ md \in (IF script = "test_git_fix" THEN {NoFile, Text("", Invalid)} ELSE {NoFile})
    /\ package_data = Absent
    /\ events = <<>>
    /\ io = <<>>
    /\ logged = 0
    /\ pkgBefore = NoFile
    /\ updateResult = "none"
    /\ tsSuffixes = <<>>
    /\ keySuffixes = <<>>
    /\ lastConfig = Absent
    /\ sysPath = <<"">>
    /\ mainCalls = 0
    /\ mainStatus = -1

\* ------------------------------------------------------------ faults

Files == <<tsFiles, config, pkg, md>>
Clock == <<now, clockBack>>
Launcher == <<sysPath, mainCalls, mainStatus>>
Ghosts == <<pkgBefore, tsSuffixes, keySuffixes, lastConfig>>

\* An exception raised at a step of create_test_files: inside the try block
\* the handler prints and the function returns; anywhere else it unwinds
\* main() and the interpreter exits with status 1.
Raise(step, exc) ==
    IF InTry(step) /\ Caught(exc)
    THEN /\ pc' = "return"
         /\ logged' = logged + 1
         /\ updateResult' = "failed"
         /\ exit' = exit
    ELSE /\ pc' = "crashed"
         /\ exit' = 1
         /\ UNCHANGED <<logged, updateResult>>

\* ------------------------------------------------- test_auto_commit.py

\* main(), lines 77-81: the banner, then the first call of create_test_files
MainStart ==
    /\ script = "test_auto_commit" /\ pc = "start"
    /\ pc' = "test_file"
    /\ round' = 1
    /\ events' = Append(events, "round")
    /\ updateResult' = "none"
    /\ UNCHANGED <<script, exit, i, package_data, io, logged, Files, Clock, Launcher, Ghosts>>

\* create_test_files, lines 18-40: src/ and the test .ts file
WriteTestFile ==
    /\ pc = "test_file"
    /\ LET test_file == TestFileName(now)
       IN \/ /\ tsFiles' = (test_file :> TestTsContent(now)) @@ tsFiles
             /\ io' = Append(io, <<"w", test_file>>)
             /\ tsSuffixes' = Append(tsSuffixes, now)
             /\ pc' = "config"
             /\ UNCHANGED <<exit, logged, updateResult>>
          \/ \* os.makedirs or open fails: nothing is written
             /\ Raise("test_file", "OSError")
             /\ UNCHANGED <<tsFiles, io, tsSuffixes>>
          \/ \* the write fails after open truncated the file
             /\ tsFiles' = (test_file :> Partial) @@ tsFiles
             /\ io' = Append(io, <<"w", test_file>>)
             /\ Raise("test_file", "OSError")
             /\ UNCHANGED tsSuffixes
    /\ UNCHANGED <<script, round, i, package_data, events, config, pkg, md, Clock,
                   Launcher, pkgBefore, keySuffixes, lastConfig>>

\* create_test_files, lines 43-55: data/ and data/config.json
WriteConfig ==
    /\ pc = "config"
    /\ \/ \E r \in RandIds :
            LET config_data == ConfigData(now, r)
            IN /\ config' = JsonDump(config_data)
               /\ lastConfig' = config_data
               /\ io' = Append(io, <<"w", ConfigPath>>)
               /\ pc' = "exists"
               /\ UNCHANGED <<exit, logged, updateResult>>
       \/ \* os.makedirs or open fails: nothing is written
          /\ Raise("config", "OSError")
          /\ UNCHANGED <<config, io, lastConfig>>
       \/ \* the dump or the close fails after open truncated the file
          /\ config' = Truncated
          /\ io' = Append(io, <<"w", ConfigPath>>)
          /\ Raise("config", "OSError")
          /\ UNCHANGED lastConfig
    /\ UNCHANGED <<script, round, i, package_data, events, tsFiles, pkg, md, Clock,
                   Launcher, pkgBefore, tsSuffixes, keySuffixes>>

\* create_test_files, line 58: if os.path.exists('package.json')
CheckPackage ==
    /\ pc = "exists"
    /\ pkgBefore' = pkg
    /\ pc' = IF Exists(pkg) THEN "load" ELSE "return"
    /\ UNCHANGED <<script, exit, round, i, package_data, events, io, logged, updateResult,
                   Files, Clock, Launcher, tsSuffixes, keySuffixes, lastConfig>>

\* create_test_files, lines 60-61: open for reading and json.load
LoadPackage ==
    /\ pc = "load"
    /\ \/ /\ Parses(pkg)
          /\ package_data' = JsonLoad(pkg)
          /\ io' = Append(io, <<"r", PackagePath>>)
          /\ pc' = "add"
          /\ UNCHANGED <<exit, logged, updateResult>>
       \/ /\ ~Parses(pkg)
          /\ io' = Append(io, <<"r", PackagePath>>)
          /\ Raise("load", "JSONDecodeError")
          /\ UNCHANGED package_data
       \/ /\ Raise("load", "OSError")
          /\ UNCHANGED <<package_data, io>>
    /\ UNCHANGED <<script, round, i, events, Files, Clock, Launcher, Ghosts>>

\* create_test_files, lines 64-67: the scripts entry keyed by a second read
\* of the clock, which may have moved on since line 37
AddScriptEntry ==
    /\ pc = "add"
    /\ \E tick \in 0..MaxTick :
         /\ now' = now + tick
         /\ IF AddScriptRaises(package_data)
            THEN /\ Raise("add", "TypeError")
                 /\ UNCHANGED <<package_data, keySuffixes>>
            ELSE /\ package_data' =
                        Obj(AddScript(package_data.pairs, ScriptKey(now'), EchoAt(now')))
                 /\ keySuffixes' = Append(keySuffixes, now')
                 /\ pc' = "dump"
                 /\ UNCHANGED <<exit, logged, updateResult>>
    /\ UNCHANGED <<script, round, i, events, io, Files, clockBack, Launcher,
                   pkgBefore, tsSuffixes, lastConfig>>

\* create_test_files, lines 69-71: open for writing and json.dump
DumpPackage ==
    /\ pc = "dump"
    /\ \/ /\ pkg' = JsonDump(package_data)
          /\ io' = Append(io, <<"w", PackagePath>>)
          /\ pc' = "return"
          /\ updateResult' = "ok"
          /\ UNCHANGED <<exit, logged>>
       \/ \* open fails: the file is as it was
          /\ Raise("dump", "OSError")
          /\ UNCHANGED <<pkg, io>>
       \/ \* the dump or the close fails after open truncated the file
          /\ pkg' = Truncated
          /\ io' = Append(io, <<"w", PackagePath>>)
          /\ Raise("dump", "OSError")
    /\ UNCHANGED <<script, round, i, package_data, events, tsFiles, config, md, Clock,
                   Launcher, Ghosts>>

\* create_test_files returns to main: after line 81 the loop starts, after
\* line 94 the next iteration does
Return ==
    /\ pc = "return"
    /\ pc' = "loop"
    /\ i' = IF round = 1 THEN 0 ELSE i + 1
    /\ UNCHANGED <<script, exit, round, package_data, events, io, logged, updateResult,
                   Files, Clock, Launcher, Ghosts>>

\* main(), lines 88-90: one iteration's time.sleep(60). The wall clock moves
\* on by the sleep, less a step back when it is set back meanwhile.
Sleep ==
    /\ pc = "loop" /\ InRange(i)
    /\ \E back \in {0, SleepSecs} :
         /\ now' = ClockAfterSleep(now, back)
         /\ clockBack' = (clockBack \/ back > 0)
    /\ events' = Append(events, "sleep")
    /\ pc' = "slept"
    /\ UNCHANGED <<script, exit, round, i, package_data, io, logged, updateResult,
                   Files, Launcher, Ghosts>>

\* main(), lines 92-94: another round unless this is the last iteration
NextRound ==
    /\ pc = "slept"
    /\ IF WritesAgain(i)
       THEN /\ pc' = "test_file"
            /\ round' = round + 1
            /\ events' = Append(events, "round")
            /\ updateResult' = "none"
            /\ i' = i
       ELSE /\ pc' = "loop"
            /\ i' = i + 1
            /\ UNCHANGED <<round, events, updateResult>>
    /\ UNCHANGED <<script, exit, package_data, io, logged, Files, Clock, Launcher, Ghosts>>

\* main(), lines 96-100: the loop is over, the closing messages, exit 0
Complete ==
    /\ script = "test_auto_commit" /\ pc = "loop" /\ ~InRange(i)
    /\ events' = Append(events, "complete")
    /\ pc' = "done"
    /\ exit' = 0
    /\ UNCHANGED <<script, round, i, package_data, io, logged, updateResult,
                   Files, Clock, Launcher, Ghosts>>

\* ----------------------------------------------------- test_git_fix.py

TacState == <<round, i, package_data, events, logged, updateResult, tsFiles, config, pkg,
              Clock, Ghosts>>

\* main(), lines 12-39: the banner and test_git_functionality.md
GitFixWrite ==
    /\ script = "test_git_fix" /\ pc = "start"
    /\ \/ /\ md' = Text("markdown", Val("md", "", now, <<>>))
          /\ io' = Append(io, <<"w", MdPath>>)
          /\ pc' = "listing"
          /\ exit' = exit
       \/ /\ pc' = "crashed"
          /\ exit' = 1
          /\ UNCHANGED <<md, io>>
       \/ /\ md' = Text("markdown", Partial)
          /\ io' = Append(io, <<"w", MdPath>>)
          /\ pc' = "crashed"
          /\ exit' = 1
    /\ UNCHANGED <<script, TacState, Launcher>>

\* main(), lines 41-52: the messages and the listing of the directory
GitFixList ==
    /\ script = "test_git_fix" /\ pc = "listing"
    /\ \/ pc' = "done" /\ exit' = 0
       \/ pc' = "crashed" /\ exit' = 1
    /\ UNCHANGED <<script, io, md, TacState, Launcher>>

\* ------------------------------------------------------------- hello.py

\* main(), lines 7-9: three messages
HelloMain ==
    /\ script = "hello" /\ pc = "start"
    /\ pc' = "done"
    /\ exit' = 0
    /\ UNCHANGED <<script, io, md, TacState, Launcher>>

\* --------------------------------------- docker/scripts/ws-mcp-direct.py

SourceDir == "/app/ws-mcp/src"

\* What ws_mcp.main() can do: return a status (0 stands for None too), call
\* sys.exit with one, or raise.
ExitCodes == {0, 1, 2}
MainOutcomes == [how : {"return", "sys.exit"}, status : ExitCodes]
                \cup {[how |-> "raise", status |-> 1]}

\* The interpreter's exit status after the statement main() on line 12: the
\* value main returns is dropped.
StatusAfterCall(outcome) ==
    CASE outcome.how = "sys.exit" -> outcome.status
      [] outcome.how = "raise" -> 1
      [] outcome.how = "return" -> 0

\* line 6: sys.path.insert(0, '/app/ws-mcp/src')
InsertPath ==
    /\ script = "ws_mcp_direct" /\ pc = "start"
    /\ sysPath' = <<SourceDir>> \o sysPath
    /\ pc' = "import"
    /\ UNCHANGED <<script, exit, io, md, TacState, mainCalls, mainStatus>>

\* line 9: from ws_mcp import main
ImportMain ==
    /\ script = "ws_mcp_direct" /\ pc = "import"
    /\ \/ pc' = "call" /\ exit' = exit
       \/ pc' = "crashed" /\ exit' = 1
    /\ UNCHANGED <<script, io, md, TacState, Launcher>>

\* lines 11-12: main()
CallMain ==
    /\ script = "ws_mcp_direct" /\ pc = "call"
    /\ \E outcome \in MainOutcomes :
         /\ mainStatus' = outcome.status
         /\ exit' = StatusAfterCall(outcome)
    /\ mainCalls' = mainCalls + 1
    /\ pc' = "done"
    /\ UNCHANGED <<script, io, md, TacState, sysPath>>

\* ------------------------------------------------------- specification

Next ==
    \/ MainStart
    \/ WriteTestFile
    \/ WriteConfig
    \/ CheckPackage
    \/ LoadPackage
    \/ AddScriptEntry
    \/ DumpPackage
    \/ Return
    \/ Sleep
    \/ NextRound
    \/ Complete
    \/ GitFixWrite
    \/ GitFixList
    \/ HelloMain
    \/ InsertPath
    \/ ImportMain
    \/ CallMain

Spec == Init /\ [][Next]_vars

\* A running script takes its next step: the interpreter runs one thread and
\* every step of it ends.
FairSpec == Spec /\ WF_vars(Next)

Terminated == pc \in {"done", "crashed"}

\* ------------------------------------------------------------ the claims

Writes(path) == Cardinality({j \in 1..Len(io) : io[j] = <<"w", path>>})
Reads(path) == Cardinality({j \in 1..Len(io) : io[j] = <<"r", path>>})
Paths == {io[j][2] : j \in 1..Len(io)}
Distinct(seq) == \A j, k \in 1..Len(seq) : j # k => seq[j] # seq[k]
IsPrefix(a, b) == Len(a) <= Len(b) /\ a = SubSeq(b, 1, Len(a))
Count(seq, x) == Cardinality({j \in 1..Len(seq) : seq[j] = x})
\* create_test_files has returned and main has not called it again
AfterRound == script = "test_auto_commit" /\ pc \in {"return", "loop", "slept", "done"}

\* data/config.json read back: a JSON object with test_id, timestamp and
\* settings, and settings.auto_commit_test true
ConfigAsDocumented ==
    /\ Parses(config)
    /\ LET v == JsonLoad(config)
       IN /\ v.t = "obj"
          /\ {"test_id", "timestamp", "settings"} \subseteq Keys(v.pairs)
          /\ Get(v.pairs, "settings").t = "obj"
          /\ HasKey(Get(v.pairs, "settings").pairs, "auto_commit_test")
          /\ Get(Get(v.pairs, "settings").pairs, "auto_commit_test") = Bool(TRUE)

\* C1: whenever create_test_files() has returned, in any round and whatever
\* data/config.json held before the run, data/config.json holds a JSON object
\* with the keys test_id, timestamp and settings, and settings.auto_commit_test
\* is true.
C1_ConfigAfterEveryRound == AfterRound => ConfigAsDocumented
\* the third round has returned, its package.json update having failed
C1_Witness == pc = "return" /\ round = 3 /\ updateResult = "failed" /\ ConfigAsDocumented

ExpectedEvents == <<"round", "sleep", "round", "sleep", "round", "sleep", "complete">>

\* C2: the events of a run of test_auto_commit.py are always a prefix of
\* round, sleep, round, sleep, round, sleep, complete, and a run that
\* completes has made exactly that sequence: three rounds, three sleeps, each
\* sleep after a round, no round after the third sleep.
C2_ThreeRoundsThreeSleeps ==
    script = "test_auto_commit" =>
        /\ IsPrefix(events, ExpectedEvents)
        /\ pc = "done" => events = ExpectedEvents
\* a run without any fault has completed
C2_Witness ==
    /\ script = "test_auto_commit" /\ pc = "done" /\ logged = 0
    /\ Count(events, "round") = 3 /\ Count(events, "sleep") = 3

PackageStepGoesOn ==
    pc \in {"load", "add", "dump"} =>
        /\ pc' \in {"add", "dump", "return"}
        /\ exit' = exit
        /\ tsFiles' = tsFiles /\ config' = config
        /\ (updateResult' = "failed") = (logged' = logged + 1)
        /\ updateResult' = "failed" => pc' = "return"

\* C3: a step of the package.json update (load, add the entry, dump) never
\* ends the script: it goes on to the next step, or the exception is logged
\* and create_test_files returns; and it leaves the .ts files and
\* data/config.json of the round as they were. The run then goes on.
C3_PackageFailureIgnored == [][PackageStepGoesOn]_vars
\* a run completed although the update failed in each of its three rounds
C3_Witness == pc = "done" /\ exit = 0 /\ logged = 3 /\ Len(tsSuffixes) = 3 /\ ConfigAsDocumented

WriteStepCompletesOrEnds ==
    /\ pc = "test_file" =>
            \/ pc' = "crashed" /\ exit' = 1
            \/ /\ pc' = "config"
               /\ TestFileName(now) \in DOMAIN tsFiles'
               /\ tsFiles'[TestFileName(now)] = TestTsContent(now)
    /\ pc = "config" =>
            \/ pc' = "crashed" /\ exit' = 1
            \/ pc' = "exists" /\ Parses(config') /\ JsonLoad(config') = lastConfig'
    /\ (script = "test_git_fix" /\ pc = "start") =>
            \/ pc' = "crashed" /\ exit' = 1
            \/ pc' = "listing" /\ md'.doc.t = "md"
    /\ pc = "crashed" => FALSE
    /\ pc' = "crashed" => Count(events', "complete") = 0

\* C4: a write step outside the package.json update either completes its file
\* and goes on, or ends the script there with a non-zero status; an ended
\* script takes no further step and never prints the completion message.
C4_OtherFailuresTerminate == [][WriteStepCompletesOrEnds]_vars

\* the second round's data/config.json write failed and ended the script
C4_Witness ==
    /\ pc = "crashed" /\ round = 2 /\ Len(tsSuffixes) = 2 /\ ~Parses(config)
    /\ events = <<"round", "sleep", "round">>

\* C5 (as claimed): the launcher has put the source directory first on the
\* import path, called main once, and exits with the status main produced.
C5_ExitStatusIsMainStatus ==
    (script = "ws_mcp_direct" /\ pc = "done") =>
        /\ sysPath[1] = SourceDir
        /\ mainCalls = 1
        /\ exit = mainStatus

TestScripts == {"test_auto_commit", "test_git_fix", "hello"}

\* C6: every run of a test script ends; it exits 0 exactly when it ran to
\* completion and non-zero exactly when an unhandled error ended it; and
\* test_auto_commit.py never sleeps more than three times.
C6_TerminatesWithExitContract ==
    /\ <>(script \in TestScripts => Terminated)
    /\ [](script \in TestScripts =>
            /\ (pc = "done") = (exit = 0)
            /\ (pc = "crashed") = (exit > 0)
            /\ ~Terminated => exit = -1
            /\ Count(events, "sleep") <= 3)
\* a run of test_auto_commit.py has completed after its third sleep
C6_Witness ==
    /\ script = "test_auto_commit" /\ pc = "done" /\ exit = 0
    /\ Count(events, "sleep") = 3

\* C7 (as claimed): within one run no path is written more than once, and no
\* path a script writes is opened for reading.
C7_WrittenOnceNeverRead ==
    \A p \in Paths : Writes(p) <= 1 /\ (Writes(p) > 0 => Reads(p) = 0)

\* C7 (amended): a path is written at most once per round, so once per run
\* outside test_auto_commit.py; only data/config.json and package.json are written
\* in more than one round, and a .ts file only when the clock was set back; the
\* only path ever opened for reading is package.json.
C7_OncePerRoundOnlyPackageRead ==
    /\ \A p \in Paths :
          /\ Writes(p) <= (IF script = "test_auto_commit" THEN round ELSE 1)
          /\ Writes(p) > 1 => (p \in {ConfigPath, PackagePath} \/ clockBack)
          /\ Reads(p) > 0 => p = PackagePath
    /\ Reads(PackagePath) <= round
\* a completed run wrote data/config.json three times and read and rewrote
\* package.json three times
C7_Witness ==
    /\ pc = "done" /\ ~clockBack
    /\ Writes(ConfigPath) = 3 /\ Reads(PackagePath) = 3 /\ Writes(PackagePath) = 3

ScriptsOf(d) == IF HasKey(d, "scripts") THEN Get(d, "scripts").pairs ELSE <<>>
LastKeySuffix == keySuffixes[Len(keySuffixes)]

\* C8: after a successful update, package.json read back has the top-level
\* keys it had plus "scripts", every other top-level value as before, and in
\* "scripts" the entries it had plus the one keyed by the current second,
\* every other entry as before; without a package.json the round neither
\* creates nor reads one.
C8_UpdateFrame ==
    /\ updateResult = "ok" =>
          /\ pkgBefore.doc.t = "obj"
          /\ Parses(pkg)
          /\ LET before == JsonLoad(pkgBefore).pairs
                 after == JsonLoad(pkg).pairs
                 key == ScriptKey(LastKeySuffix)
             IN /\ Keys(after) = Keys(before) \cup {"scripts"}
                /\ \A k \in Keys(before) \ {"scripts"} : Get(after, k) = Get(before, k)
                /\ Get(after, "scripts").t = "obj"
                /\ Keys(ScriptsOf(after)) = Keys(ScriptsOf(before)) \cup {key}
                /\ \A k \in Keys(ScriptsOf(before)) \ {key} :
                      Get(ScriptsOf(after), k) = Get(ScriptsOf(before), k)
                /\ Get(ScriptsOf(after), key) = EchoAt(LastKeySuffix)
    /\ (AfterRound /\ ~Exists(pkgBefore)) =>
          /\ ~Exists(pkg)
          /\ PackagePath \notin Paths
          /\ updateResult = "none"
\* an update succeeded on a package.json that had a name and, in scripts, a
\* build entry written twice and the very key the update sets
C8_Witness ==
    /\ updateResult = "ok" /\ pc = "return"
    /\ pkgBefore.fmt = "compact"
    /\ HasKey(pkgBefore.doc.pairs, "name")
    /\ Len(ScriptsOf(pkgBefore.doc.pairs)) = MaxPairs
    /\ Cardinality(Keys(ScriptsOf(pkgBefore.doc.pairs))) = 1

\* C9 (as claimed): when the update failed and the exception was caught,
\* package.json is as it was before the update started.
C9_FailedUpdateKeepsFile == updateResult = "failed" => pkg = pkgBefore

\* C10: a completed run under a clock that was never set back has used three
\* pairwise distinct suffixes: three .ts files, each still holding what its
\* round wrote; data/config.json written three times and holding the last
\* round's content; and, when no update failed, three distinct script keys,
\* all in package.json.
C10_DistinctSuffixes ==
    (script = "test_auto_commit" /\ pc = "done" /\ ~clockBack) =>
        /\ Len(tsSuffixes) = 3 /\ Distinct(tsSuffixes)
        /\ Cardinality(DOMAIN tsFiles) = 3
        /\ \A k \in 1..3 :
              /\ TestFileName(tsSuffixes[k]) \in DOMAIN tsFiles
              /\ tsFiles[TestFileName(tsSuffixes[k])] = TestTsContent(tsSuffixes[k])
              /\ Writes(TestFileName(tsSuffixes[k])) = 1
        /\ Writes(ConfigPath) = 3
        /\ config = JsonDump(lastConfig)
        /\ Get(lastConfig.pairs, "timestamp") = Num(tsSuffixes[3])
        /\ (Exists(pkg) /\ logged = 0) =>
              /\ Len(keySuffixes) = 3 /\ Distinct(keySuffixes)
              /\ \A k \in 1..3 :
                    HasKey(ScriptsOf(JsonLoad(pkg).pairs), ScriptKey(keySuffixes[k]))
\* such a run, with an existing package.json and the clock ticking between the
\* two reads of a round
C10_Witness ==
    /\ script = "test_auto_commit" /\ pc = "done" /\ ~clockBack /\ logged = 0
    /\ Exists(pkg) /\ Len(keySuffixes) = 3
    /\ keySuffixes[1] > tsSuffixes[1]

====
